---- MODULE Spec2Model ----
(***************************************************************************)
(* SyncCommitteeContribution and SyncContributionData of                   *)
(* consensus/types/src/sync_committee_contribution.rs.                     *)
(*                                                                         *)
(* The two types are plain values; their operations (from_message,         *)
(* aggregate, from_contribution, SSZ encode/decode) are functions of their *)
(* arguments.  Each specification below draws the arguments from bounded   *)
(* sets and applies the operations as actions.                             *)
(***************************************************************************)
EXTENDS Integers, Sequences, FiniteSets, Bags, TLC

VARIABLES
    debug_assertions,  \* build configuration: are the debug_assert_eq! compiled in
    pc,                \* position of the caller
    a, b, c,           \* contributions held by the caller (Option)
    entry,             \* self and other at entry of the latest aggregate call
    outcome,           \* how the latest aggregate call ended
    calls,             \* number of aggregate calls that returned
    keys,              \* results of from_contribution, per contribution
    args, res,         \* arguments and result of the latest from_message call
    fold,              \* results of the three fold orders
    value, wire, decoded \* SSZ: the value, its encoding, the decoded value

vars == <<debug_assertions, pc, a, b, c, entry, outcome, calls, keys,
          args, res, fold, value, wire, decoded>>

(***************************************************************************)
(* Bounds and input domains                                                *)
(***************************************************************************)

\* E::SyncSubcommitteeSize, the width of aggregation_bits (128 on mainnet)
W == 3

\* aggregate calls a caller makes on one contribution in the scenario Spec
MaxCalls == 2

HashLen == 32
U64Len == 8
SignatureLen == 96

Positions == 0 .. (W - 1)

RepeatByte(x) == [k \in 1 .. HashLen |-> x]

Slots == {42, 70000}
Roots == {RepeatByte(17), RepeatByte(34)}
SubcommitteeIndices == {3, 258}
\* single-validator signatures, by identifier
Signatures == {1, 2}

None == [tag |-> "None"]
Some(v) == [tag |-> "Some", val |-> v]
Ok(v) == [tag |-> "Ok", val |-> v]
Err(e) == [tag |-> "Err", err |-> e]

(***************************************************************************)
(* BitVector<N>: new, set, union                                           *)
(***************************************************************************)

BitVectorNew == [p \in Positions |-> FALSE]

BitVectorSet(bits, i, v) ==
    IF i < W
    THEN Ok([bits EXCEPT ![i] = v])
    ELSE Err([kind |-> "OutOfBounds", i |-> i, len |-> W])

BitVectorUnion(x, y) == [p \in Positions |-> x[p] \/ y[p]]

SetBits(bits) == {p \in Positions : bits[p]}

(***************************************************************************)
(* AggregateSignature: the formal sum of the single signatures added to it *)
(***************************************************************************)

AggregateSignatureFrom(sig) == SetToBag({sig})

add_assign_aggregate(self, other) == self (+) other

(***************************************************************************)
(* Error, SyncCommitteeMessage, SyncCommitteeContribution                  *)
(***************************************************************************)

SszTypesError(e) == [kind |-> "SszTypesError", inner |-> e]

Messages ==
    [slot : Slots, beacon_block_root : Roots, signature : Signatures]

from_message_off_by_one(message, subcommittee_index, validator_sync_committee_index) ==
    LET bits == BitVectorNew
        set == BitVectorSet(bits, validator_sync_committee_index + 1, TRUE)
    IN  IF set.tag = "Err"
        THEN Err(SszTypesError(set.err))
        ELSE Ok([slot |-> message.slot,
                 beacon_block_root |-> message.beacon_block_root,
                 subcommittee_index |-> subcommittee_index,
                 aggregation_bits |-> set.val,
                 signature |-> AggregateSignatureFrom(message.signature)])

from_message_unchecked(message, subcommittee_index, validator_sync_committee_index) ==
    LET bits == BitVectorNew
        set == BitVectorSet(bits, validator_sync_committee_index, TRUE)
    IN  Ok([slot |-> message.slot,
            beacon_block_root |-> message.beacon_block_root,
            subcommittee_index |-> subcommittee_index,
            aggregation_bits |-> IF set.tag = "Ok" THEN set.val ELSE bits,
            signature |-> AggregateSignatureFrom(message.signature)])

from_message(message, subcommittee_index, validator_sync_committee_index) ==
    LET bits == BitVectorNew
        set == BitVectorSet(bits, validator_sync_committee_index, TRUE)
    IN  IF set.tag = "Err"
        THEN Err(SszTypesError(set.err))
        ELSE Ok([slot |-> message.slot,
                 beacon_block_root |-> message.beacon_block_root,
                 subcommittee_index |-> subcommittee_index,
                 aggregation_bits |-> set.val,
                 signature |-> AggregateSignatureFrom(message.signature)])

\* the three debug_assert_eq! of aggregate
SameData(self, other) ==
    /\ self.slot = other.slot
    /\ self.beacon_block_root = other.beacon_block_root
    /\ self.subcommittee_index = other.subcommittee_index

Panic == [tag |-> "Panic"]

aggregate_intersection(self, other) ==
    IF debug_assertions /\ ~SameData(self, other)
    THEN Panic
    ELSE Ok([self EXCEPT
               !.aggregation_bits =
                   [p \in Positions |-> @[p] /\ other.aggregation_bits[p]],
               !.signature = add_assign_aggregate(@, other.signature)])

aggregate_clobber(self, other) ==
    IF debug_assertions /\ ~SameData(self, other)
    THEN Panic
    ELSE Ok([other EXCEPT
               !.aggregation_bits =
                   BitVectorUnion(self.aggregation_bits, @),
               !.signature = add_assign_aggregate(self.signature, @)])

aggregate_replace_signature(self, other) ==
    IF debug_assertions /\ ~SameData(self, other)
    THEN Panic
    ELSE Ok([self EXCEPT
               !.aggregation_bits = BitVectorUnion(@, other.aggregation_bits),
               !.signature = other.signature])

aggregate_keep_signature(self, other) ==
    IF debug_assertions /\ ~SameData(self, other)
    THEN Panic
    ELSE Ok([self EXCEPT
               !.aggregation_bits = BitVectorUnion(@, other.aggregation_bits)])

aggregate_no_root_assert(self, other) ==
    IF debug_assertions /\ ~(/\ self.slot = other.slot
                             /\ self.subcommittee_index = other.subcommittee_index)
    THEN Panic
    ELSE Ok([self EXCEPT
               !.aggregation_bits = BitVectorUnion(@, other.aggregation_bits),
               !.signature = add_assign_aggregate(@, other.signature)])

aggregate_skip_overlap(self, other) ==
    IF debug_assertions /\ ~SameData(self, other)
    THEN Panic
    ELSE IF SetBits(self.aggregation_bits) \cap SetBits(other.aggregation_bits) # {}
    THEN Ok(self)
    ELSE Ok([self EXCEPT
               !.aggregation_bits = BitVectorUnion(@, other.aggregation_bits),
               !.signature = add_assign_aggregate(@, other.signature)])

\* self.aggregate(&other): Panic when a debug assertion fails, else the new self
aggregate(self, other) ==
    IF debug_assertions /\ ~SameData(self, other)
    THEN Panic
    ELSE Ok([self EXCEPT
               !.aggregation_bits = BitVectorUnion(@, other.aggregation_bits),
               !.signature = add_assign_aggregate(@, other.signature)])

(***************************************************************************)
(* SyncContributionData                                                    *)
(***************************************************************************)

from_contribution_slot_as_index(signing_data) ==
    [slot |-> signing_data.slot,
     beacon_block_root |-> signing_data.beacon_block_root,
     subcommittee_index |-> signing_data.slot]

from_contribution(signing_data) ==
    [slot |-> signing_data.slot,
     beacon_block_root |-> signing_data.beacon_block_root,
     subcommittee_index |-> signing_data.subcommittee_index]

(***************************************************************************)
(* Well-formed contributions: the fields are public, any value of the      *)
(* field types is a contribution                                           *)
(***************************************************************************)

BitVectors == [Positions -> BOOLEAN]

Contributions(sigs) ==
    [slot : Slots, beacon_block_root : Roots,
     subcommittee_index : SubcommitteeIndices,
     aggregation_bits : BitVectors, signature : sigs]

PopCount(bits) == Cardinality(SetBits(bits))

Disjoint(x, y) == SetBits(x) \cap SetBits(y) = {}

Idle ==
    /\ c = None
    /\ args = None /\ res = None
    /\ fold = None
    /\ value = None /\ wire = <<>> /\ decoded = None

(***************************************************************************)
(* Spec: a caller holds two contributions, self (a) and other (b), calls   *)
(* a.aggregate(&b) up to MaxCalls times and takes their keys               *)
(***************************************************************************)

SelfSignatures == {SetToBag({1}), SetToBag({1, 2})}
OtherSignatures == {SetToBag({1}), SetToBag({2})}

Init ==
    /\ debug_assertions \in BOOLEAN
    /\ pc = "ready"
    /\ a \in {Some(x) : x \in Contributions(SelfSignatures)}
    /\ b \in {Some(y) : y \in Contributions(OtherSignatures)}
    /\ entry = None
    /\ outcome = "none"
    /\ calls = 0
    /\ keys = [x \in {"a", "b"} |-> None]
    /\ Idle

Aggregate ==
    /\ pc = "ready"
    /\ calls < MaxCalls
    /\ entry' = Some([self |-> a.val, other |-> b.val])
    /\ LET r == aggregate(a.val, b.val)
       IN  IF r.tag = "Panic"
           THEN /\ outcome' = "panicked"
                /\ pc' = "panicked"
                /\ UNCHANGED <<a, calls>>
           ELSE /\ outcome' = "returned"
                /\ a' = Some(r.val)
                /\ calls' = calls + 1
                /\ pc' = pc
    /\ UNCHANGED <<debug_assertions, b, c, keys, args, res, fold,
                   value, wire, decoded>>

FromContribution(x) ==
    /\ pc = "ready"
    /\ keys' = [keys EXCEPT
                  ![x] = Some(from_contribution(IF x = "a" THEN a.val ELSE b.val))]
    /\ UNCHANGED <<debug_assertions, pc, a, b, c, entry, outcome, calls,
                   args, res, fold, value, wire, decoded>>

Next ==
    \/ Aggregate
    \/ \E x \in {"a", "b"} : FromContribution(x)

Spec == Init /\ [][Next]_vars

Identity(x) ==
    <<x.slot, x.beacon_block_root, x.subcommittee_index>>

Matched(x) == BagCardinality(x.signature) = PopCount(x.aggregation_bits)

\* C3: after a.aggregate(&b) returns, the set bits of a.aggregation_bits are
\* the union of the set bits a had at entry and the set bits of b: no bit set
\* in either operand is cleared, no bit clear in both is set.
BitUnionFaithful ==
    outcome = "returned" =>
        /\ DOMAIN a.val.aggregation_bits = Positions
        /\ \A p \in Positions :
               a.val.aggregation_bits[p] <=>
                   (entry.val.self.aggregation_bits[p]
                        \/ entry.val.other.aggregation_bits[p])

BitUnionWitness ==
    /\ outcome = "returned"
    /\ SetBits(entry.val.self.aggregation_bits) = {0}
    /\ SetBits(entry.val.other.aggregation_bits) = {1, 2}
    /\ SetBits(a.val.aggregation_bits) = {0, 1, 2}

\* C4: a.aggregate(&b) changes only a.aggregation_bits and a.signature: a's
\* slot, beacon_block_root and subcommittee_index are what they were at entry,
\* and every field of b is unchanged.
AggregatePreservesIdentity ==
    outcome \in {"returned", "panicked"} =>
        /\ a.val.slot = entry.val.self.slot
        /\ a.val.beacon_block_root = entry.val.self.beacon_block_root
        /\ a.val.subcommittee_index = entry.val.self.subcommittee_index
        /\ DOMAIN a.val = DOMAIN entry.val.self
        /\ b.val = entry.val.other

AggregatePreservesIdentityWitness ==
    /\ outcome = "returned"
    /\ ~debug_assertions
    /\ Identity(entry.val.self) # Identity(entry.val.other)
    /\ a.val.aggregation_bits # entry.val.self.aggregation_bits
    /\ a.val.signature # entry.val.self.signature

\* C7 as stated: whenever self.aggregate(&other) completes and has modified
\* self, self and other had the same slot, beacon_block_root and
\* subcommittee_index.
AggregatedTriplesEqual ==
    (outcome = "returned" /\ a.val # entry.val.self) =>
        SameData(entry.val.self, entry.val.other)

\* C7 amended: with debug assertions compiled in, a call of aggregate that
\* completes had operands with equal triples, and a call on unequal triples
\* panics leaving self as it was; without debug assertions every call
\* completes, whatever the triples.
AggregatedTriplesEqualInDebug ==
    /\ (debug_assertions /\ outcome = "returned") =>
           SameData(entry.val.self, entry.val.other)
    /\ outcome = "panicked" =>
           /\ debug_assertions
           /\ ~SameData(entry.val.self, entry.val.other)
           /\ a.val = entry.val.self
    /\ (~debug_assertions /\ entry # None) => outcome = "returned"

AggregatedTriplesEqualWitness ==
    /\ debug_assertions
    /\ outcome = "returned"
    /\ a.val # entry.val.self
    /\ SameData(entry.val.self, entry.val.other)

\* C9: from_contribution(x) is exactly the triple (x.slot,
\* x.beacon_block_root, x.subcommittee_index) and leaves x alone; the keys of
\* two contributions are equal iff their triples are, whatever their bits and
\* signatures; a key taken before an aggregate call is still the key after it.
KeyIsIdentity ==
    /\ keys["a"] # None =>
           /\ DOMAIN keys["a"].val =
                  {"slot", "beacon_block_root", "subcommittee_index"}
           /\ keys["a"].val.slot = a.val.slot
           /\ keys["a"].val.beacon_block_root = a.val.beacon_block_root
           /\ keys["a"].val.subcommittee_index = a.val.subcommittee_index
    /\ keys["b"] # None =>
           /\ keys["b"].val.slot = b.val.slot
           /\ keys["b"].val.beacon_block_root = b.val.beacon_block_root
           /\ keys["b"].val.subcommittee_index = b.val.subcommittee_index
    /\ (keys["a"] # None /\ keys["b"] # None) =>
           (keys["a"].val = keys["b"].val <=> Identity(a.val) = Identity(b.val))

KeyIsIdentityWitness ==
    /\ keys["a"] # None
    /\ keys["b"] # None
    /\ keys["a"].val = keys["b"].val
    /\ calls >= 1
    /\ a.val.aggregation_bits # b.val.aggregation_bits
    /\ a.val.signature # b.val.signature

\* C10: aggregate checks no disjointness and reports no error: a call whose
\* operands overlap, such as a second call with the same b, completes; the
\* second call leaves a.aggregation_bits as the first left them and adds b's
\* signature again, so that a contribution whose signature matched its bits
\* one-for-one no longer does.
OverlapNotIdempotent ==
    /\ outcome = "panicked" =>
           (calls = 0 /\ ~SameData(entry.val.self, entry.val.other))
    /\ calls >= 2 =>
           /\ outcome = "returned"
           /\ a.val.aggregation_bits = entry.val.self.aggregation_bits
           /\ \A s \in Signatures :
                  CopiesIn(s, a.val.signature) =
                      CopiesIn(s, entry.val.self.signature)
                          + CopiesIn(s, b.val.signature)
           /\ \A s \in BagToSet(b.val.signature) :
                  CopiesIn(s, a.val.signature) >= 2 * CopiesIn(s, b.val.signature)
    /\ ( /\ outcome = "returned"
         /\ ~Disjoint(entry.val.self.aggregation_bits,
                      entry.val.other.aggregation_bits)
         /\ Matched(entry.val.self)
         /\ Matched(entry.val.other) ) =>
           BagCardinality(a.val.signature) > PopCount(a.val.aggregation_bits)

OverlapNotIdempotentWitness ==
    /\ calls = 2
    /\ Matched(b.val)
    /\ Matched(entry.val.self)
    /\ PopCount(b.val.aggregation_bits) = 1
    /\ PopCount(a.val.aggregation_bits) = 2
    /\ BagCardinality(a.val.signature) = 3

(***************************************************************************)
(* SpecConstruct: one call of from_message on arguments drawn from the     *)
(* messages, the subcommittee indices and the positions 0 .. W + 1         *)
(***************************************************************************)

Indices == 0 .. (W + 1)

InitConstruct ==
    /\ debug_assertions \in BOOLEAN
    /\ pc = "construct"
    /\ args \in {Some(x) : x \in [message : Messages,
                                  subcommittee_index : SubcommitteeIndices,
                                  validator_sync_committee_index : Indices]}
    /\ res = None
    /\ a = None /\ b = None /\ c = None
    /\ entry = None /\ outcome = "none" /\ calls = 0
    /\ keys = [x \in {"a", "b"} |-> None]
    /\ fold = None
    /\ value = None /\ wire = <<>> /\ decoded = None

FromMessage ==
    /\ pc = "construct"
    /\ LET r == from_message(args.val.message, args.val.subcommittee_index,
                             args.val.validator_sync_committee_index)
       IN  /\ res' = Some(r)
           /\ a' = IF r.tag = "Ok" THEN Some(r.val) ELSE a
    /\ pc' = "constructed"
    /\ UNCHANGED <<debug_assertions, b, c, entry, outcome, calls, keys, args,
                   fold, value, wire, decoded>>

NextConstruct == FromMessage

SpecConstruct == InitConstruct /\ [][NextConstruct]_vars

\* C1: for every message m, subcommittee_index s and position i < W,
\* from_message(m, s, i) succeeds with a contribution whose aggregation_bits
\* has bit i set and every other bit clear, whose slot and beacon_block_root
\* are m's, whose subcommittee_index is s and whose signature is the aggregate
\* of exactly the one signature m.signature.
ConstructionExact ==
    (res # None /\ args.val.validator_sync_committee_index < W) =>
        /\ res.val.tag = "Ok"
        /\ a = Some(res.val.val)
        /\ DOMAIN a.val.aggregation_bits = Positions
        /\ \A p \in Positions :
               a.val.aggregation_bits[p] <=>
                   (p = args.val.validator_sync_committee_index)
        /\ a.val.slot = args.val.message.slot
        /\ a.val.beacon_block_root = args.val.message.beacon_block_root
        /\ a.val.subcommittee_index = args.val.subcommittee_index
        /\ BagToSet(a.val.signature) = {args.val.message.signature}
        /\ CopiesIn(args.val.message.signature, a.val.signature) = 1

ConstructionExactWitness ==
    /\ res # None
    /\ res.val.tag = "Ok"
    /\ args.val.validator_sync_committee_index = W - 1
    /\ a.val.aggregation_bits[W - 1]
    /\ args.val.message.signature = 2
    /\ args.val.subcommittee_index = 258

\* C2: from_message(m, s, i) fails iff i >= W: it succeeds for i = W - 1, and
\* for i = W and above it returns Error::SszTypesError wrapping the bit
\* vector's error and produces no contribution, whatever m and s.
ConstructionFailsIffOutOfRange ==
    res # None =>
        /\ res.val.tag \in {"Ok", "Err"}
        /\ res.val.tag = "Err" <=> args.val.validator_sync_committee_index >= W
        /\ res.val.tag = "Err" =>
               /\ res.val.err.kind = "SszTypesError"
               /\ res.val.err.inner.kind = "OutOfBounds"
               /\ a = None
        /\ res.val.tag = "Ok" => a # None

ConstructionFailsWitness ==
    /\ res # None
    /\ res.val.tag = "Err"
    /\ args.val.validator_sync_committee_index = W
    /\ a = None

(***************************************************************************)
(* SpecPool: a caller that respects the contract of both operations.  It   *)
(* builds a contribution from the message signed by the validator at the   *)
(* position it passes, and aggregates two contributions only when their    *)
(* keys are equal and their bits disjoint.                                 *)
(***************************************************************************)

\* the signature of the validator at position p of the subcommittee
SignatureOf(p) == p + 1

Held(x) == IF x = "a" THEN a ELSE b

InitPool ==
    /\ debug_assertions \in BOOLEAN
    /\ pc = "pool"
    /\ a = None /\ b = None
    /\ entry = None /\ outcome = "none" /\ calls = 0
    /\ keys = [x \in {"a", "b"} |-> None]
    /\ Idle

PoolFromMessage(x, slot, root, s, i) ==
    /\ pc = "pool"
    /\ LET m == [slot |-> slot, beacon_block_root |-> root,
                 signature |-> SignatureOf(i)]
           r == from_message(m, s, i)
           n == IF r.tag = "Ok" THEN Some(r.val) ELSE Held(x)
       IN  /\ a' = IF x = "a" THEN n ELSE a
           /\ b' = IF x = "b" THEN n ELSE b
    /\ UNCHANGED <<debug_assertions, pc, c, entry, outcome, calls, keys,
                   args, res, fold, value, wire, decoded>>

PoolAggregate(x, y) ==
    /\ pc = "pool"
    /\ Held(x) # None /\ Held(y) # None
    /\ from_contribution(Held(x).val) = from_contribution(Held(y).val)
    /\ Disjoint(Held(x).val.aggregation_bits, Held(y).val.aggregation_bits)
    /\ LET r == aggregate(Held(x).val, Held(y).val)
           n == IF r.tag = "Ok" THEN Some(r.val) ELSE Held(x)
       IN  /\ a' = IF x = "a" THEN n ELSE a
           /\ b' = IF x = "b" THEN n ELSE b
           /\ pc' = IF r.tag = "Ok" THEN pc ELSE "panicked"
    /\ UNCHANGED <<debug_assertions, c, entry, outcome, calls, keys,
                   args, res, fold, value, wire, decoded>>

NextPool ==
    \/ \E x \in {"a", "b"}, slot \in Slots, root \in Roots,
          s \in SubcommitteeIndices, i \in 0 .. W :
           PoolFromMessage(x, slot, root, s, i)
    \/ PoolAggregate("a", "b")
    \/ PoolAggregate("b", "a")

SpecPool == InitPool /\ [][NextPool]_vars

\* C6: in every contribution reached by from_message and aggregate calls
\* that respect the preconditions, the signature holds exactly one single
\* signature for each set bit of aggregation_bits and none for a clear bit.
BitsMatchContributors ==
    /\ pc = "pool"
    /\ \A x \in {"a", "b"} :
           Held(x) # None =>
               /\ \A p \in Positions :
                      CopiesIn(SignatureOf(p), Held(x).val.signature) =
                          IF Held(x).val.aggregation_bits[p] THEN 1 ELSE 0
               /\ BagToSet(Held(x).val.signature) \subseteq
                      {SignatureOf(p) : p \in Positions}

BitsMatchContributorsWitness ==
    /\ a # None
    /\ PopCount(a.val.aggregation_bits) >= 3
    /\ BagCardinality(a.val.signature) >= 3

(***************************************************************************)
(* SpecFold: three contributions a, b, c with equal triples and pairwise   *)
(* disjoint bits are folded in the three orders (a+b)+c, (a+c)+b, a+(b+c), *)
(* each fold on its own copy                                               *)
(***************************************************************************)

FoldRegisters == {"ab", "ab_c", "ac", "ac_b", "bc", "a_bc"}

InitFold ==
    /\ debug_assertions \in BOOLEAN
    /\ pc = "fold"
    /\ a \in {Some(x) : x \in Contributions(SelfSignatures)}
    /\ b \in {Some(y) : y \in {z \in Contributions(OtherSignatures) :
                 /\ Identity(z) = Identity(a.val)
                 /\ Disjoint(z.aggregation_bits, a.val.aggregation_bits)}}
    /\ c \in {Some(y) : y \in {z \in Contributions(OtherSignatures) :
                 /\ Identity(z) = Identity(a.val)
                 /\ Disjoint(z.aggregation_bits, a.val.aggregation_bits)
                 /\ Disjoint(z.aggregation_bits, b.val.aggregation_bits)}}
    /\ fold = [r \in FoldRegisters |-> None]
    /\ entry = None /\ outcome = "none" /\ calls = 0
    /\ keys = [x \in {"a", "b"} |-> None]
    /\ args = None /\ res = None
    /\ value = None /\ wire = <<>> /\ decoded = None

\* register := clone of self; register.aggregate(&other)
FoldStep(register, self, other) ==
    /\ pc = "fold"
    /\ self # None /\ other # None
    /\ fold[register] = None
    /\ LET r == aggregate(self.val, other.val)
       IN  IF r.tag = "Panic"
           THEN /\ pc' = "panicked"
                /\ fold' = fold
           ELSE /\ pc' = pc
                /\ fold' = [fold EXCEPT ![register] = Some(r.val)]
    /\ UNCHANGED <<debug_assertions, a, b, c, entry, outcome, calls, keys,
                   args, res, value, wire, decoded>>

FoldAB == FoldStep("ab", a, b)
FoldAB_C == FoldStep("ab_c", fold["ab"], c)
FoldAC == FoldStep("ac", a, c)
FoldAC_B == FoldStep("ac_b", fold["ac"], b)
FoldBC == FoldStep("bc", b, c)
FoldA_BC == FoldStep("a_bc", a, fold["bc"])

NextFold ==
    \/ FoldAB
    \/ FoldAB_C
    \/ FoldAC
    \/ FoldAC_B
    \/ FoldBC
    \/ FoldA_BC

SpecFold == InitFold /\ [][NextFold]_vars

FoldsDone ==
    /\ fold["ab_c"] # None
    /\ fold["ac_b"] # None
    /\ fold["a_bc"] # None

\* C5: for contributions a, b, c with equal triples and pairwise disjoint
\* bits, the folds (a+b)+c, (a+c)+b and a+(b+c) end with the same
\* aggregation_bits and the same multiset of single signatures: the result
\* does not depend on the order of the aggregate calls.
FoldOrderIndependent ==
    /\ pc = "fold"
    /\ FoldsDone =>
           /\ fold["ab_c"].val.aggregation_bits = fold["ac_b"].val.aggregation_bits
           /\ fold["ab_c"].val.aggregation_bits = fold["a_bc"].val.aggregation_bits
           /\ SetBits(fold["ab_c"].val.aggregation_bits) =
                  SetBits(a.val.aggregation_bits)
                      \cup SetBits(b.val.aggregation_bits)
                      \cup SetBits(c.val.aggregation_bits)
           /\ \A s \in Signatures :
                  /\ CopiesIn(s, fold["ab_c"].val.signature) =
                         CopiesIn(s, fold["ac_b"].val.signature)
                  /\ CopiesIn(s, fold["ab_c"].val.signature) =
                         CopiesIn(s, fold["a_bc"].val.signature)
                  /\ CopiesIn(s, fold["ab_c"].val.signature) =
                         CopiesIn(s, a.val.signature)
                             + CopiesIn(s, b.val.signature)
                             + CopiesIn(s, c.val.signature)
           /\ fold["ab_c"].val = fold["ac_b"].val
           /\ fold["ab_c"].val = fold["a_bc"].val

FoldOrderIndependentWitness ==
    /\ FoldsDone
    /\ SetBits(a.val.aggregation_bits) = {2}
    /\ SetBits(b.val.aggregation_bits) = {0}
    /\ SetBits(c.val.aggregation_bits) = {1}
    /\ b.val.signature # c.val.signature
    /\ SetBits(fold["a_bc"].val.aggregation_bits) = {0, 1, 2}
    /\ BagCardinality(fold["a_bc"].val.signature) = 3

(***************************************************************************)
(* SSZ: the derived Encode and Decode of SyncCommitteeContribution.  A     *)
(* container of fixed-length fields is the concatenation of the encodings  *)
(* of its fields in declaration order.  Bytes are numbers 0 .. 255.        *)
(***************************************************************************)

\* the fields of the struct, in declaration order
ContributionFieldsIndexFirst ==
    <<"subcommittee_index", "beacon_block_root", "slot", "aggregation_bits",
      "signature">>

ContributionFields ==
    <<"slot", "beacon_block_root", "subcommittee_index", "aggregation_bits",
      "signature">>

RECURSIVE U64ToBytes(_, _)
\* little-endian, k bytes
U64ToBytes(n, k) ==
    IF k = 0 THEN <<>> ELSE <<n % 256>> \o U64ToBytes(n \div 256, k - 1)

RECURSIVE U64FromBytes(_)
U64FromBytes(bytes) ==
    IF bytes = <<>> THEN 0 ELSE Head(bytes) + 256 * U64FromBytes(Tail(bytes))

BitVectorByteLen == (W + 7) \div 8

RECURSIVE BitsOfByte(_, _, _)
\* the value of the byte holding bits base .. base + 7, bit k upward
BitsOfByte(bits, base, k) ==
    IF k = 8 \/ base + k >= W
    THEN 0
    ELSE (IF bits[base + k] THEN 2 ^ k ELSE 0) + BitsOfByte(bits, base, k + 1)

BitVectorToBytes(bits) ==
    [j \in 1 .. BitVectorByteLen |-> BitsOfByte(bits, 8 * (j - 1), 0)]

BitVectorFromBytes(bytes) ==
    [p \in Positions |-> (bytes[(p \div 8) + 1] \div (2 ^ (p % 8))) % 2 = 1]

\* the opaque fixed-length encoding of an aggregate: one byte per single
\* signature identifier, holding the number of times it was added
SignatureToBytes(sig) ==
    [k \in 1 .. SignatureLen |-> CopiesIn(k, sig)]

SignatureFromBytes(bytes) ==
    [k \in {j \in 1 .. SignatureLen : bytes[j] > 0} |-> bytes[k]]

FieldLen(f) ==
    CASE f = "slot" -> U64Len
      [] f = "beacon_block_root" -> HashLen
      [] f = "subcommittee_index" -> U64Len
      [] f = "aggregation_bits" -> BitVectorByteLen
      [] f = "signature" -> SignatureLen

FieldToBytes(f, x) ==
    CASE f = "slot" -> U64ToBytes(x, U64Len)
      [] f = "beacon_block_root" -> x
      [] f = "subcommittee_index" -> U64ToBytes(x, U64Len)
      [] f = "aggregation_bits" -> BitVectorToBytes(x)
      [] f = "signature" -> SignatureToBytes(x)

FieldFromBytes(f, bytes) ==
    CASE f = "slot" -> U64FromBytes(bytes)
      [] f = "beacon_block_root" -> bytes
      [] f = "subcommittee_index" -> U64FromBytes(bytes)
      [] f = "aggregation_bits" -> BitVectorFromBytes(bytes)
      [] f = "signature" -> SignatureFromBytes(bytes)

RECURSIVE FieldsLen(_)
FieldsLen(fs) == IF fs = <<>> THEN 0 ELSE FieldLen(Head(fs)) + FieldsLen(Tail(fs))

\* where field number k starts in the encoding, counting from 0
FieldOffset(k) == FieldsLen(SubSeq(ContributionFields, 1, k - 1))

RECURSIVE EncodeFields(_, _)
EncodeFields(x, fs) ==
    IF fs = <<>>
    THEN <<>>
    ELSE FieldToBytes(Head(fs), x[Head(fs)]) \o EncodeFields(x, Tail(fs))

as_ssz_bytes(x) == EncodeFields(x, ContributionFields)

from_ssz_bytes(bytes) ==
    IF Len(bytes) # FieldsLen(ContributionFields)
    THEN Err([kind |-> "InvalidByteLength", len |-> Len(bytes),
              expected |-> FieldsLen(ContributionFields)])
    ELSE Ok([f \in {ContributionFields[k] : k \in DOMAIN ContributionFields} |->
               LET k == CHOOSE j \in DOMAIN ContributionFields :
                            ContributionFields[j] = f
               IN  FieldFromBytes(f, SubSeq(bytes, FieldOffset(k) + 1,
                                            FieldOffset(k) + FieldLen(f)))])

(***************************************************************************)
(* SpecSsz: a well-formed contribution is encoded and the bytes decoded    *)
(***************************************************************************)

SszSignatures ==
    {EmptyBag, SetToBag({1}), SetToBag({2}), SetToBag({1, 2}),
     SetToBag({1}) (+) SetToBag({1}), SetToBag({1, 2}) (+) SetToBag({2})}

InitSsz ==
    /\ debug_assertions \in BOOLEAN
    /\ pc = "ssz"
    /\ value \in {Some(x) : x \in Contributions(SszSignatures)}
    /\ wire = <<>>
    /\ decoded = None
    /\ a = None /\ b = None /\ c = None
    /\ entry = None /\ outcome = "none" /\ calls = 0
    /\ keys = [x \in {"a", "b"} |-> None]
    /\ args = None /\ res = None
    /\ fold = None

Encode ==
    /\ pc = "ssz"
    /\ wire' = as_ssz_bytes(value.val)
    /\ pc' = "encoded"
    /\ UNCHANGED <<debug_assertions, a, b, c, entry, outcome, calls, keys,
                   args, res, fold, value, decoded>>

Decode ==
    /\ pc = "encoded"
    /\ decoded' = Some(from_ssz_bytes(wire))
    /\ pc' = "decoded"
    /\ UNCHANGED <<debug_assertions, a, b, c, entry, outcome, calls, keys,
                   args, res, fold, value, wire>>

NextSsz ==
    \/ Encode
    \/ Decode

SpecSsz == InitSsz /\ [][NextSsz]_vars

\* C8: decoding the SSZ encoding of a well-formed contribution yields a
\* value equal to it, and the encoding is the fixed-length concatenation of
\* slot (8 bytes), beacon_block_root (32), subcommittee_index (8),
\* aggregation_bits (W bits in ceil(W / 8) bytes) and signature (96), in
\* this order.
SszRoundTrip ==
    /\ pc \in {"encoded", "decoded"} =>
           /\ Len(wire) = 8 + 32 + 8 + ((W + 7) \div 8) + 96
           /\ \A k \in 1 .. Len(wire) : wire[k] \in 0 .. 255
           /\ \A k \in 3 .. 7 : wire[1 + k] = 0 /\ wire[41 + k] = 0
           /\ wire[1] + 256 * wire[2] + 65536 * wire[3] = value.val.slot
           /\ SubSeq(wire, 9, 40) = value.val.beacon_block_root
           /\ wire[41] + 256 * wire[42] + 65536 * wire[43] =
                  value.val.subcommittee_index
           /\ \A p \in Positions :
                  value.val.aggregation_bits[p] <=>
                      ((wire[49 + (p \div 8)] \div (2 ^ (p % 8))) % 2 = 1)
           /\ \A s \in Signatures :
                  wire[48 + ((W + 7) \div 8) + s] = CopiesIn(s, value.val.signature)
    /\ pc = "decoded" =>
           /\ decoded.val.tag = "Ok"
           /\ decoded.val.val = value.val
           /\ \A s \in Signatures :
                  CopiesIn(s, decoded.val.val.signature) =
                      CopiesIn(s, value.val.signature)

SszRoundTripWitness ==
    /\ pc = "decoded"
    /\ decoded.val.tag = "Ok"
    /\ value.val.slot = 70000
    /\ value.val.subcommittee_index = 258
    /\ SetBits(value.val.aggregation_bits) = {0, 2}
    /\ BagCardinality(value.val.signature) = 3

====
